---- MODULE Spec2Model ----
(***************************************************************************)
(* Model of the Claude Permission Analyzer hook scripts (src/hooks).       *)
(* One invocation of a hook entrypoint is one run of run_hook: endpoint    *)
(* check, stdin read, JSON parse, validation, event-name attachment, one   *)
(* POST to the analyzer, passthrough test, formatter, emission, exit.      *)
(*                                                                         *)
(* Python values are modelled as follows.                                  *)
(*   - a str is a sequence of one-character strings;                       *)
(*   - a JSON value inside a dict is a record [t, s, n]: t the Python      *)
(*     type, s the characters of a str, n the number (bool: 1 / 0) or the  *)
(*     length of a list / dict whose members the code never inspects;      *)
(*   - a dict is a function whose DOMAIN is its set of keys;               *)
(*   - a top-level JSON document is [t, d]: its type and, for a dict, its  *)
(*     content.                                                            *)
(***************************************************************************)
EXTENDS Integers, Sequences, FiniteSets, TLC

\* ------------------------------------------------------------------------
\* Module constants of hook_base.py
\* ------------------------------------------------------------------------
TIMEOUT == 30
MAX_INPUT_SIZE == 1000000
MAX_SESSION_ID_LENGTH == 128
MAX_TOOL_NAME_LENGTH == 256
REASON_LIMIT == 1000
SUGGESTION_LIMIT == 500
DEFAULT_THRESHOLD == 85
DENY_BELOW == 30

\* ------------------------------------------------------------------------
\* Bounds of the model
\* ------------------------------------------------------------------------
\* lengths within Slack of each limit are enumerated
Slack == 1

\* ------------------------------------------------------------------------
\* Python values
\* ------------------------------------------------------------------------
Min(a, b) == IF a <= b THEN a ELSE b

Alphabet == <<"a", "b", "c">>

\* a str of n characters whose characters vary with their position
MkStr(n) == [i \in 1..n |-> Alphabet[(i % 3) + 1]]

\* s[:n]
Prefix(s, n) == SubSeq(s, 1, Min(Len(s), n))

Null == [t |-> "NoneType", s |-> <<>>, n |-> 0]
Str(s) == [t |-> "str", s |-> s, n |-> 0]
Num(n) == [t |-> "int", s |-> <<>>, n |-> n]
Bool(b) == [t |-> "bool", s |-> <<>>, n |-> IF b THEN 1 ELSE 0]
List(n) == [t |-> "list", s |-> <<>>, n |-> n]
Dict(n) == [t |-> "dict", s |-> <<>>, n |-> n]

EmptyDict == [k \in {} |-> Null]

\* d.get(k, default)
Get(d, k, default) == IF k \in DOMAIN d THEN d[k] ELSE default

\* bool(v)
Truthy(v) ==
  CASE v.t = "NoneType" -> FALSE
    [] v.t = "str" -> Len(v.s) > 0
    [] v.t \in {"int", "bool"} -> v.n # 0
    [] OTHER -> v.n > 0

\* decimal digits of a natural number
RECURSIVE Digits(_)
Digits(n) ==
  IF n < 10 THEN <<(<<"0","1","2","3","4","5","6","7","8","9">>)[n + 1]>>
  ELSE Digits(n \div 10) \o Digits(n % 10)

\* str(v) for the values the formatters receive
PyStr(v) ==
  CASE v.t = "str" -> v.s
    [] v.t = "NoneType" -> <<"N", "o", "n", "e">>
    [] v.t = "bool" -> IF v.n = 1 THEN <<"T", "r", "u", "e">>
                       ELSE <<"F", "a", "l", "s", "e">>
    [] v.t = "int" -> IF v.n < 0 THEN <<"-">> \o Digits(0 - v.n) ELSE Digits(v.n)
    [] OTHER -> <<"[", ".", ".", ".", "]">>

\* top-level JSON documents
TopDict(d) == [t |-> "dict", d |-> d]
TopOther(type) == [t |-> type, d |-> EmptyDict]

\* ------------------------------------------------------------------------
\* Endpoint check
\* ------------------------------------------------------------------------
\* urllib.parse.urlparse on the endpoints of the model: the scheme and the
\* hostname come back lower-cased, a missing host is None (here ""), and an
\* unbalanced IPv6 bracket raises ValueError.
urlparse(url) ==
  CASE url = "http://localhost:5050/api/analyze" ->
         [raises |-> FALSE, scheme |-> "http", hostname |-> "localhost"]
    [] url = "https://127.0.0.1:5050/api/analyze" ->
         [raises |-> FALSE, scheme |-> "https", hostname |-> "127.0.0.1"]
    [] url = "http://[::1]:5050/api/analyze" ->
         [raises |-> FALSE, scheme |-> "http", hostname |-> "::1"]
    [] url = "HTTP://LOCALHOST:5050/api/analyze" ->
         [raises |-> FALSE, scheme |-> "http", hostname |-> "localhost"]
    [] url = "ftp://localhost/api/analyze" ->
         [raises |-> FALSE, scheme |-> "ftp", hostname |-> "localhost"]
    [] url = "http://evil.example.com/api/analyze" ->
         [raises |-> FALSE, scheme |-> "http", hostname |-> "evil.example.com"]
    [] url = "http://169.254.169.254/latest" ->
         [raises |-> FALSE, scheme |-> "http", hostname |-> "169.254.169.254"]
    [] url = "http://localhost.evil.example.com/" ->
         [raises |-> FALSE, scheme |-> "http",
          hostname |-> "localhost.evil.example.com"]
    [] url = "http://localhost@evil.example.com/" ->
         [raises |-> FALSE, scheme |-> "http", hostname |-> "evil.example.com"]
    [] url = "file:///etc/passwd" ->
         [raises |-> FALSE, scheme |-> "file", hostname |-> ""]
    [] url = "http://[::1/api" ->
         [raises |-> TRUE, scheme |-> "", hostname |-> ""]
    [] OTHER ->
         [raises |-> FALSE, scheme |-> "", hostname |-> ""]

LoopbackHosts == {"localhost", "127.0.0.1", "::1"}

\* faulty variant: the scheme is not checked
validate_service_url_AnyScheme(url) ==
  LET parsed == urlparse(url) IN
    IF parsed.raises THEN FALSE
    ELSE parsed.hostname \in LoopbackHosts

validate_service_url(url) ==
  LET parsed == urlparse(url) IN
    IF parsed.raises THEN FALSE
    ELSE IF parsed.scheme \notin {"http", "https"} THEN FALSE
    ELSE parsed.hostname \in LoopbackHosts

\* ------------------------------------------------------------------------
\* Input validation
\* ------------------------------------------------------------------------
\* faulty variant: tool_name is checked for its length only
validate_hook_input_ToolNameLengthOnly(data) ==
  LET session_id == Get(data, "session_id", Str(<<>>))
      tool_name == Get(data, "tool_name", Null)
  IN  IF /\ Truthy(session_id)
         /\ session_id.t # "str"
      THEN "Invalid session_id type"
      ELSE IF /\ Truthy(session_id)
              /\ Len(session_id.s) > MAX_SESSION_ID_LENGTH
      THEN "session_id exceeds maximum length"
      ELSE IF /\ tool_name.t = "str"
              /\ Len(tool_name.s) > MAX_TOOL_NAME_LENGTH
      THEN "Invalid tool_name"
      ELSE ""

\* faulty variant: a session_id of exactly the maximum length is refused
validate_hook_input_SessionIdOffByOne(data) ==
  LET session_id == Get(data, "session_id", Str(<<>>))
      tool_name == Get(data, "tool_name", Null)
  IN  IF /\ Truthy(session_id)
         /\ session_id.t # "str"
      THEN "Invalid session_id type"
      ELSE IF /\ Truthy(session_id)
              /\ Len(session_id.s) >= MAX_SESSION_ID_LENGTH
      THEN "session_id exceeds maximum length"
      ELSE IF /\ tool_name.t # "NoneType"
              /\ (tool_name.t # "str" \/ Len(tool_name.s) > MAX_TOOL_NAME_LENGTH)
      THEN "Invalid tool_name"
      ELSE ""

\* the error message, or "" for None
validate_hook_input(data) ==
  LET session_id == Get(data, "session_id", Str(<<>>))
      tool_name == Get(data, "tool_name", Null)
  IN  IF /\ Truthy(session_id)
         /\ session_id.t # "str"
      THEN "Invalid session_id type"
      ELSE IF /\ Truthy(session_id)
              /\ Len(session_id.s) > MAX_SESSION_ID_LENGTH
      THEN "session_id exceeds maximum length"
      ELSE IF /\ tool_name.t # "NoneType"
              /\ (tool_name.t # "str" \/ Len(tool_name.s) > MAX_TOOL_NAME_LENGTH)
      THEN "Invalid tool_name"
      ELSE ""

\* ------------------------------------------------------------------------
\* Response formatters
\* ------------------------------------------------------------------------
\* the literal text of the formatters, as str values
TxtSafetyScore ==
  <<"S", "a", "f", "e", "t", "y", " ", "s", "c", "o", "r", "e", " ">>
TxtBelowThreshold ==
  <<" ", "b", "e", "l", "o", "w", " ", "t", "h", "r", "e", "s", "h",
  "o", "l", "d", " ">>
TxtReason ==
  <<".", " ", "R", "e", "a", "s", "o", "n", ":", " ">>
TxtDenied ==
  <<"D", "e", "n", "i", "e", "d">>
TxtRequiresReview ==
  <<"R", "e", "q", "u", "i", "r", "e", "s", " ", "r", "e", "v", "i",
  "e", "w">>

\* a formatter call either returns a dict or raises
Returns(out) == [raised |-> "", out |-> out]
Raises(cls) == [raised |-> cls, out |-> EmptyDict]

\* faulty variant: the reasoning is embedded whole
format_permission_output_Uncut(result) ==
  LET autoApprove == Get(result, "autoApprove", Null)
      reasoning == PyStr(Get(result, "reasoning", Str(TxtDenied)))
      message == TxtSafetyScore \o PyStr(Get(result, "safetyScore", Num(0)))
                   \o TxtBelowThreshold \o PyStr(Get(result, "threshold", Num(0)))
                   \o TxtReason \o reasoning
  IN  Returns(
        [hookSpecificOutput |->
          [hookEventName |-> "PermissionRequest",
           decision |->
             IF Truthy(autoApprove) THEN [behavior |-> "allow"]
             ELSE IF Truthy(Get(result, "interrupt", Null))
                  THEN [behavior |-> "deny", message |-> message,
                        interrupt |-> TRUE]
                  ELSE [behavior |-> "deny", message |-> message]]])

format_permission_output(result) ==
  LET autoApprove == Get(result, "autoApprove", Null)
      reasoning == Prefix(PyStr(Get(result, "reasoning", Str(TxtDenied))),
                          REASON_LIMIT)
      message == TxtSafetyScore \o PyStr(Get(result, "safetyScore", Num(0)))
                   \o TxtBelowThreshold \o PyStr(Get(result, "threshold", Num(0)))
                   \o TxtReason \o reasoning
  IN  Returns(
        [hookSpecificOutput |->
          [hookEventName |-> "PermissionRequest",
           decision |->
             IF Truthy(autoApprove) THEN [behavior |-> "allow"]
             ELSE IF Truthy(Get(result, "interrupt", Null))
                  THEN [behavior |-> "deny", message |-> message,
                        interrupt |-> TRUE]
                  ELSE [behavior |-> "deny", message |-> message]]])

\* int, bool (and float) order against each other; None orders against nothing
IsNumber(v) == v.t \in {"int", "bool"}

\* faulty variant: result["threshold"], a verdict without threshold raises
format_pre_tool_output_NoDefault(result) ==
  LET score == Get(result, "safetyScore", Num(0))
      threshold == Get(result, "threshold", Null)
      decision == IF score.n >= threshold.n THEN "allow"
                  ELSE IF score.n < DENY_BELOW THEN "deny"
                  ELSE "ask"
      reason == Prefix(PyStr(Get(result, "reasoning", Str(TxtRequiresReview))),
                       REASON_LIMIT)
  IN  IF "threshold" \notin DOMAIN result THEN Raises("KeyError")
      ELSE IF ~(IsNumber(score) /\ IsNumber(threshold)) THEN Raises("TypeError")
      ELSE IF decision # "allow"
      THEN Returns([hookSpecificOutput |->
                     [hookEventName |-> "PreToolUse",
                      permissionDecision |-> decision,
                      permissionDecisionReason |-> reason]])
      ELSE Returns([hookSpecificOutput |->
                     [hookEventName |-> "PreToolUse",
                      permissionDecision |-> decision]])

\* faulty variant: a score equal to the threshold does not allow
format_pre_tool_output_Strict(result) ==
  LET score == Get(result, "safetyScore", Num(0))
      threshold == Get(result, "threshold", Num(DEFAULT_THRESHOLD))
      decision == IF score.n > threshold.n THEN "allow"
                  ELSE IF score.n < DENY_BELOW THEN "deny"
                  ELSE "ask"
      reason == Prefix(PyStr(Get(result, "reasoning", Str(TxtRequiresReview))),
                       REASON_LIMIT)
  IN  IF ~(IsNumber(score) /\ IsNumber(threshold)) THEN Raises("TypeError")
      ELSE IF decision # "allow"
      THEN Returns([hookSpecificOutput |->
                     [hookEventName |-> "PreToolUse",
                      permissionDecision |-> decision,
                      permissionDecisionReason |-> reason]])
      ELSE Returns([hookSpecificOutput |->
                     [hookEventName |-> "PreToolUse",
                      permissionDecision |-> decision]])

format_pre_tool_output(result) ==
  LET score == Get(result, "safetyScore", Num(0))
      threshold == Get(result, "threshold", Num(DEFAULT_THRESHOLD))
      decision == IF score.n >= threshold.n THEN "allow"
                  ELSE IF score.n < DENY_BELOW THEN "deny"
                  ELSE "ask"
      reason == Prefix(PyStr(Get(result, "reasoning", Str(TxtRequiresReview))),
                       REASON_LIMIT)
  IN  IF ~(IsNumber(score) /\ IsNumber(threshold)) THEN Raises("TypeError")
      ELSE IF decision # "allow"
      THEN Returns([hookSpecificOutput |->
                     [hookEventName |-> "PreToolUse",
                      permissionDecision |-> decision,
                      permissionDecisionReason |-> reason]])
      ELSE Returns([hookSpecificOutput |->
                     [hookEventName |-> "PreToolUse",
                      permissionDecision |-> decision]])

\* faulty variant: the suggestion is cut like a reasoning
format_post_tool_output_ReasonLimit(result) ==
  LET suggestion == Get(result, "suggestion", Null)
  IN  IF Truthy(suggestion)
      THEN Returns([hookSpecificOutput |->
                     [hookEventName |-> "PostToolUse",
                      additionalContext |->
                        Prefix(PyStr(suggestion), REASON_LIMIT)]])
      ELSE Returns(EmptyDict)

format_post_tool_output(result) ==
  LET suggestion == Get(result, "suggestion", Null)
  IN  IF Truthy(suggestion)
      THEN Returns([hookSpecificOutput |->
                     [hookEventName |-> "PostToolUse",
                      additionalContext |->
                        Prefix(PyStr(suggestion), SUGGESTION_LIMIT)]])
      ELSE Returns(EmptyDict)

\* takes no parameter
format_log_only_output == Returns(EmptyDict)

\* number of positional parameters of each formatter
Arity(format_fn) ==
  IF format_fn = "format_log_only_output" THEN 0 ELSE 1

\* faulty variant: every entrypoint's verdict goes through the permission
\* formatter
CallFormatter_AlwaysPermission(format_fn, result) ==
  format_permission_output(result)

\* run_hook's call format_fn(result), or format_permission_output(result)
\* when format_fn is None
CallFormatter(format_fn, result) ==
  IF format_fn = "None" THEN format_permission_output(result)
  ELSE IF Arity(format_fn) # 1 THEN Raises("TypeError")
  ELSE CASE format_fn = "format_permission_output" ->
              format_permission_output(result)
         [] format_fn = "format_pre_tool_output" ->
              format_pre_tool_output(result)
         [] format_fn = "format_post_tool_output" ->
              format_post_tool_output(result)
         [] OTHER -> format_log_only_output

\* ------------------------------------------------------------------------
\* Exceptions
\* ------------------------------------------------------------------------
\* the classes an exception class inherits from, itself included;
\* SystemExit derives from BaseException only
Bases(cls) ==
  CASE cls = "JSONDecodeError" -> {"JSONDecodeError", "ValueError", "Exception"}
    [] cls = "UnicodeDecodeError" ->
         {"UnicodeDecodeError", "ValueError", "Exception"}
    [] cls = "socket.timeout" -> {"socket.timeout", "OSError", "Exception"}
    [] cls = "ConnectionRefusedError" ->
         {"ConnectionRefusedError", "ConnectionError", "OSError", "Exception"}
    [] cls = "ConnectionResetError" ->
         {"ConnectionResetError", "ConnectionError", "OSError", "Exception"}
    [] cls = "gaierror" -> {"gaierror", "OSError", "Exception"}
    [] cls = "URLError" -> {"URLError", "OSError", "Exception"}
    [] cls = "HTTPError" -> {"HTTPError", "URLError", "OSError", "Exception"}
    [] cls = "SystemExit" -> {"SystemExit", "BaseException"}
    [] cls = "str" -> {"str"}
    [] OTHER -> {cls, "Exception"}

\* cls: the class; reason: the class of e.reason (URLError: the wrapped
\* error, HTTPError: the status text, a str); code: the HTTP status
Exc(cls, reason, code) == [cls |-> cls, reason |-> reason, code |-> code]
NoExc == Exc("", "", 0)

\* the except clauses of run_hook, in source order
Handlers ==
  <<"JSONDecodeError", "socket.timeout", "ConnectionRefusedError",
    "URLError", "HTTPError", "Exception">>

\* faulty variant: the URLError itself is tested, not its reason
ReasonIsRefused_TestsError(e) == "ConnectionRefusedError" \in Bases(e.cls)

\* faulty variant: any OSError reason counts as the service being absent
ReasonIsRefused_AnyOSError(e) == "OSError" \in Bases(e.reason)

\* isinstance(e.reason, ConnectionRefusedError)
ReasonIsRefused(e) == "ConnectionRefusedError" \in Bases(e.reason)

\* the first except clause that matches e
HandlerOf(e) ==
  LET matching == {i \in 1..Len(Handlers) : Handlers[i] \in Bases(e.cls)}
  IN  Handlers[CHOOSE i \in matching : \A j \in matching : i <= j]

\* faulty variant: a timeout ends the process with the status 2
HandleOutcome_TimeoutExitsTwo(e) ==
  LET h == HandlerOf(e) IN
  CASE h = "JSONDecodeError" -> [err |-> "ERROR: Invalid JSON", code |-> 1]
    [] h = "socket.timeout" ->
         [err |-> "ERROR: Analyzer service timed out", code |-> 2]
    [] h = "ConnectionRefusedError" -> [err |-> "", code |-> 0]
    [] h = "URLError" ->
         IF ReasonIsRefused(e)
         THEN [err |-> "", code |-> 0]
         ELSE [err |-> "ERROR: Request failed", code |-> 1]
    [] h = "HTTPError" -> [err |-> "ERROR: Service error", code |-> 1]
    [] OTHER -> [err |-> "ERROR: " \o e.cls, code |-> 1]

\* what the matching except clause does: the line printed to stderr
\* ("" when none) and the exit code
HandleOutcome(e) ==
  LET h == HandlerOf(e) IN
  CASE h = "JSONDecodeError" -> [err |-> "ERROR: Invalid JSON", code |-> 1]
    [] h = "socket.timeout" ->
         [err |-> "ERROR: Analyzer service timed out", code |-> 1]
    [] h = "ConnectionRefusedError" -> [err |-> "", code |-> 0]
    [] h = "URLError" ->
         IF ReasonIsRefused(e)
         THEN [err |-> "", code |-> 0]
         ELSE [err |-> "ERROR: Request failed", code |-> 1]
    [] h = "HTTPError" -> [err |-> "ERROR: Service error", code |-> 1]
    [] OTHER -> [err |-> "ERROR: " \o e.cls, code |-> 1]

\* ------------------------------------------------------------------------
\* Transport
\* ------------------------------------------------------------------------
Fails(e) == [raised |-> TRUE, exc |-> e, ret |-> TopOther("NoneType")]
Yields(top) == [raised |-> FALSE, exc |-> NoExc, ret |-> top]

\* what the network does with the one request: net is "response" (then
\* status and body say what the analyzer answered) or the way the
\* connection failed
NetResponse(status, body) == [net |-> "response", status |-> status, body |-> body]
NetFailure(kind) ==
  [net |-> kind, status |-> 0,
   body |-> [json |-> "invalid", top |-> TopOther("NoneType")]]

\* urllib.request.urlopen: connection errors come wrapped in URLError, errors
\* while the response is read come bare, a status outside 200..299 raises
\* HTTPError
urlopen(behaviour) ==
  CASE behaviour.net = "refused" -> Fails(Exc("URLError", "ConnectionRefusedError", 0))
    [] behaviour.net = "refused_bare" -> Fails(Exc("ConnectionRefusedError", "", 0))
    [] behaviour.net = "connect_timeout" -> Fails(Exc("URLError", "socket.timeout", 0))
    [] behaviour.net = "read_timeout" -> Fails(Exc("socket.timeout", "", 0))
    [] behaviour.net = "unresolved" -> Fails(Exc("URLError", "gaierror", 0))
    [] behaviour.net = "reset" -> Fails(Exc("ConnectionResetError", "", 0))
    [] OTHER ->
         IF behaviour.status < 200 \/ behaviour.status >= 300
         THEN Fails(Exc("HTTPError", "str", behaviour.status))
         ELSE Yields(TopOther("HTTPResponse"))

\* send_to_analyzer after the request is built: the return value or the
\* exception raised
send_to_analyzer(behaviour) ==
  LET resp == urlopen(behaviour) IN
    IF resp.raised THEN resp
    ELSE IF behaviour.status # 200 THEN Fails(Exc("RuntimeError", "", behaviour.status))
    ELSE IF behaviour.body.json = "undecodable"
         THEN Fails(Exc("UnicodeDecodeError", "", 0))
    ELSE IF behaviour.body.json = "invalid"
         THEN Fails(Exc("JSONDecodeError", "", 0))
    ELSE Yields(behaviour.body.top)

\* the request send_to_analyzer builds
BuildRequest(url, key, hook_input) ==
  [url |-> url, method |-> "POST", data |-> hook_input, timeout |-> TIMEOUT,
   headers |-> IF key # ""
               THEN {<<"Content-Type", "application/json">>,
                     <<"Accept", "application/json">>, <<"X-Api-Key", key>>}
               ELSE {<<"Content-Type", "application/json">>,
                     <<"Accept", "application/json">>}]

\* ------------------------------------------------------------------------
\* The environment of an invocation: entrypoint, configuration, stdin
\* ------------------------------------------------------------------------
\* the shipped scripts: the event name and the formatter each passes to
\* run_hook
Entrypoints ==
  { [script |-> "bash-hook.py", event |-> "PermissionRequest",
     format_fn |-> "format_permission_output"],
    [script |-> "mcp-hook.py", event |-> "PermissionRequest",
     format_fn |-> "format_permission_output"],
    [script |-> "pre-tool-use-hook.py", event |-> "PreToolUse",
     format_fn |-> "format_pre_tool_output"],
    [script |-> "post-tool-use-hook.py", event |-> "PostToolUse",
     format_fn |-> "format_post_tool_output"],
    [script |-> "post-tool-failure-hook.py", event |-> "PostToolUseFailure",
     format_fn |-> "format_log_only_output"],
    [script |-> "stop-hook.py", event |-> "Stop",
     format_fn |-> "format_log_only_output"],
    [script |-> "user-prompt-hook.py", event |-> "UserPromptSubmit",
     format_fn |-> "format_log_only_output"] }

\* values of CLAUDE_ANALYZER_URL; the first is the default
ServiceUrls ==
  { "http://localhost:5050/api/analyze", "https://127.0.0.1:5050/api/analyze",
    "http://[::1]:5050/api/analyze", "HTTP://LOCALHOST:5050/api/analyze",
    "ftp://localhost/api/analyze", "http://evil.example.com/api/analyze",
    "http://169.254.169.254/latest", "http://localhost.evil.example.com/",
    "http://localhost@evil.example.com/", "file:///etc/passwd",
    "http://[::1/api", "" }

\* values of CLAUDE_ANALYZER_API_KEY; the first is the default
ApiKeys == {"", "secret"}

\* a key that the dict does not hold
Absent == [t |-> "absent", s |-> <<>>, n |-> 0]

\* the dict holding the keys of f whose value is not Absent
DictOf(f) == [k \in {x \in DOMAIN f : f[x].t # "absent"} |-> f[k]]

\* lengths around a limit
LensAround(limit) == (limit - Slack)..(limit + Slack)

SessionIdValues ==
  {Absent, Null, Num(0), Num(5), Bool(FALSE), Bool(TRUE), List(0), List(2),
   Dict(0), Dict(1)}
    \cup {Str(MkStr(n)) : n \in {0, 1} \cup LensAround(MAX_SESSION_ID_LENGTH)}

ToolNameValues ==
  {Absent, Null, Num(0), Num(7), Bool(FALSE), List(0), Dict(1)}
    \cup {Str(MkStr(n)) : n \in {0, 4} \cup LensAround(MAX_TOOL_NAME_LENGTH)}

HookInput(session_id, tool_name, hookEventName, tool_input) ==
  DictOf([session_id |-> session_id, tool_name |-> tool_name,
          hookEventName |-> hookEventName, tool_input |-> tool_input])

BaseInput == HookInput(Str(MkStr(1)), Str(MkStr(4)), Absent, Dict(1))

\* the JSON objects a host can deliver
InputDicts ==
  {HookInput(sid, Str(MkStr(4)), Absent, Dict(1)) : sid \in SessionIdValues}
    \cup {HookInput(Str(MkStr(1)), tn, Absent, Dict(1)) : tn \in ToolNameValues}
    \cup {HookInput(sid, tn, Str(MkStr(3)), Absent) :
            sid \in {Absent, Num(5)}, tn \in {Absent, Null, Num(7)}}

\* a text by what json.loads makes of it: json is "ok" (top the document)
\* or "invalid" (JSONDecodeError)
Parsed(top) == [json |-> "ok", top |-> top]
Garbage == [json |-> "invalid", top |-> TopOther("NoneType")]

InputDocs ==
  {Parsed(TopDict(d)) : d \in InputDicts}
    \cup {Parsed(TopOther(ty)) : ty \in {"list", "str", "int", "bool", "NoneType"}}
    \cup {Garbage}

\* size of an input that is far below the limit
SmallChars == 4096

\* stdin: its length in characters and in UTF-8 bytes (a character takes
\* one byte or more) and its text; JSON allows padding with white space, so
\* any document comes in any size above its own
Stdin(chars, bytes, doc) == [chars |-> chars, bytes |-> bytes, doc |-> doc]

Stdins ==
  {Stdin(SmallChars, SmallChars, doc) : doc \in InputDocs}
    \cup {Stdin(0, 0, Garbage)}
    \cup {Stdin(c, c + extra, doc) :
            c \in LensAround(MAX_INPUT_SIZE) \cup {MAX_INPUT_SIZE \div 2},
            extra \in {0, Slack, MAX_INPUT_SIZE},
            doc \in {Parsed(TopDict(BaseInput)), Garbage}}

\* sys.stdin.read(n) on the text stream: at most n characters
StdinRead(in, n) ==
  [chars |-> Min(in.chars, n),
   doc |-> IF in.chars > n THEN Garbage ELSE in.doc]

\* ------------------------------------------------------------------------
\* The analyzer
\* ------------------------------------------------------------------------
\* the verdict with autoApprove a, safetyScore sc, threshold th, reasoning r,
\* interrupt i, suggestion sg and passthrough p
Verdict(a, sc, th, r, i, sg, p) ==
  DictOf([autoApprove |-> a, safetyScore |-> sc, threshold |-> th,
          reasoning |-> r, interrupt |-> i, suggestion |-> sg,
          passthrough |-> p])

Flags == {Absent, Bool(TRUE), Bool(FALSE)}

ScoreValues ==
  {Absent, Null}
    \cup {Num(n) : n \in {0, 50, 100} \cup ((DENY_BELOW - Slack)..DENY_BELOW)
                     \cup ((DEFAULT_THRESHOLD - Slack)..DEFAULT_THRESHOLD)}

ThresholdValues == {Absent, Num(20), Num(50), Num(95)}

ReasoningValues ==
  {Absent, Null}
    \cup {Str(MkStr(n)) : n \in {0, 2 * REASON_LIMIT} \cup LensAround(REASON_LIMIT)}

SuggestionValues ==
  {Absent, Null}
    \cup {Str(MkStr(n)) :
            n \in {0, 2 * SUGGESTION_LIMIT} \cup LensAround(SUGGESTION_LIMIT)}

\* verdicts that exercise the formatters: each family varies the fields one
\* formatter reads
FormatVerdicts ==
  {Verdict(Absent, sc, th, r, Absent, Absent, p) :
     sc \in ScoreValues, th \in ThresholdValues, r \in ReasoningValues,
     p \in {Absent, Bool(FALSE)}}
    \cup {Verdict(a, sc, th, r, i, Absent, Absent) :
            a \in Flags, sc \in {Absent, Num(50)}, th \in {Absent, Num(95)},
            r \in ReasoningValues, i \in Flags}
    \cup {Verdict(a, Absent, Absent, Absent, Absent, sg, p) :
            a \in {Absent, Bool(TRUE)}, sg \in SuggestionValues, p \in Flags}
    \cup {Verdict(a, sc, th, r, Absent, Absent, Bool(TRUE)) :
            a \in Flags, sc \in {Absent, Null, Num(0), Num(100)},
            th \in {Absent, Num(95)},
            r \in {Absent, Str(MkStr(2 * REASON_LIMIT))}}
    \cup {Verdict(a, sc, th, r, i, sg, Absent) :
            a \in {Absent, Bool(FALSE)}, sc \in {Absent, Num(50)},
            th \in {Absent, Num(95)}, r \in {Absent, Str(MkStr(REASON_LIMIT))},
            i \in {Absent, Bool(TRUE)},
            sg \in {Absent, Str(MkStr(SUGGESTION_LIMIT))}}

\* verdicts of the whole-invocation runs
RunVerdicts ==
  {Verdict(a, Num(50), Absent, r, Bool(TRUE), sg, p) :
     a \in {Absent, Bool(TRUE)},
     r \in {Absent, Str(MkStr(REASON_LIMIT + Slack))},
     sg \in {Absent, Str(MkStr(SUGGESTION_LIMIT + Slack))},
     p \in Flags}
    \cup {EmptyDict}

ResponseBodies ==
  {Parsed(TopDict(v)) : v \in RunVerdicts}
    \cup {Parsed(TopOther(ty)) : ty \in {"list", "str", "int", "NoneType"}}
    \cup {Garbage, [json |-> "undecodable", top |-> TopOther("NoneType")]}

\* everything the network can do with the request
Behaviours ==
  {NetFailure(k) : k \in {"refused", "refused_bare", "connect_timeout",
                          "read_timeout", "unresolved", "reset"}}
    \cup {NetResponse(200, b) : b \in ResponseBodies}
    \cup {NetResponse(st, Parsed(TopDict(EmptyDict))) :
            st \in {201, 204, 404, 500, 503}}

\* ------------------------------------------------------------------------
\* One invocation of a hook script
\* ------------------------------------------------------------------------
VARIABLES
  entry,        \* the script that runs: its event name and formatter
  SERVICE_URL,  \* CLAUDE_ANALYZER_URL
  API_KEY,      \* CLAUDE_ANALYZER_API_KEY
  stdin,        \* what the host put on standard input
  pc,           \* the step of run_hook that runs next
  consumed,     \* characters taken from stdin so far
  raw_input,    \* read_hook_input's raw_input
  hook_input,   \* the parsed input dict
  requests,     \* the requests issued on the network, in order
  network,      \* what the network did with the request
  result,       \* send_to_analyzer's return value
  output,       \* the formatter's return value
  exc,          \* the exception that is propagating
  stdout,       \* the JSON documents printed to standard output, in order
  stderr,       \* the lines printed to standard error, in order
  exit_code     \* the process exit status; NotExited while it runs

vars ==
  <<entry, SERVICE_URL, API_KEY, stdin, pc, consumed, raw_input, hook_input,
    requests, network, result, output, exc, stdout, stderr, exit_code>>

env == <<entry, SERVICE_URL, API_KEY, stdin>>

NotExited == -1

NoInput == [chars |-> 0, doc |-> Garbage]

\* no request has been issued
NoBehaviour == NetFailure("")

Init ==
  /\ entry \in Entrypoints
  /\ SERVICE_URL \in ServiceUrls
  /\ API_KEY \in ApiKeys
  /\ stdin \in Stdins
  /\ pc = "check_url"
  /\ consumed = 0
  /\ raw_input = NoInput
  /\ hook_input = EmptyDict
  /\ requests = <<>>
  /\ network = NoBehaviour
  /\ result = TopOther("NoneType")
  /\ output = EmptyDict
  /\ exc = NoExc
  /\ stdout = <<>>
  /\ stderr = <<>>
  /\ exit_code = NotExited

\* print(msg, file=sys.stderr); sys.exit(code)
Die(msg, code) ==
  /\ stderr' = Append(stderr, msg)
  /\ exit_code' = code
  /\ pc' = "exited"

\* read_hook_input: the endpoint check
CheckServiceUrl ==
  /\ pc = "check_url"
  /\ IF ~validate_service_url(SERVICE_URL)
     THEN Die("ERROR: Service URL must be a localhost/loopback address", 1)
     ELSE /\ pc' = "read"
          /\ UNCHANGED <<stderr, exit_code>>
  /\ UNCHANGED <<env, network, consumed, raw_input, hook_input, requests, result,
                 output, exc, stdout>>

\* read_hook_input: sys.stdin.read(MAX_INPUT_SIZE + 1) and the size check
ReadStdin ==
  /\ pc = "read"
  /\ raw_input' = StdinRead(stdin, MAX_INPUT_SIZE + 1)
  /\ consumed' = raw_input'.chars
  /\ IF raw_input'.chars > MAX_INPUT_SIZE
     THEN Die("ERROR: Input exceeds maximum size", 1)
     ELSE /\ pc' = "parse"
          /\ UNCHANGED <<stderr, exit_code>>
  /\ UNCHANGED <<env, network, hook_input, requests, result, output, exc, stdout>>

\* read_hook_input: json.loads and the isinstance(hook_input, dict) check
ParseInput ==
  /\ pc = "parse"
  /\ IF raw_input.doc.json # "ok"
     THEN /\ exc' = Exc("JSONDecodeError", "", 0)
          /\ pc' = "except"
          /\ UNCHANGED <<hook_input, stderr, exit_code>>
     ELSE IF raw_input.doc.top.t # "dict"
     THEN /\ Die("ERROR: Input must be a JSON object", 1)
          /\ UNCHANGED <<hook_input, exc>>
     ELSE /\ hook_input' = raw_input.doc.top.d
          /\ pc' = "validate"
          /\ UNCHANGED <<exc, stderr, exit_code>>
  /\ UNCHANGED <<env, network, consumed, raw_input, requests, result, output, stdout>>

\* read_hook_input: validate_hook_input and the return
ValidateInput ==
  /\ pc = "validate"
  /\ IF validate_hook_input(hook_input) # ""
     THEN Die("ERROR: Input validation failed: "
                \o validate_hook_input(hook_input), 1)
     ELSE /\ pc' = "attach"
          /\ UNCHANGED <<stderr, exit_code>>
  /\ UNCHANGED <<env, network, consumed, raw_input, hook_input, requests, result,
                 output, exc, stdout>>

\* faulty variant: d.setdefault(key, value), a key already held is kept
SetItem_KeepExisting(d, key, value) ==
  [k \in DOMAIN d \cup {key} |-> IF k \in DOMAIN d THEN d[k] ELSE value]

\* d[key] = value
SetItem(d, key, value) ==
  [k \in DOMAIN d \cup {key} |-> IF k = key THEN value ELSE d[k]]

\* hook_input["hookEventName"] = hook_event_name (the name is kept whole,
\* as a str of one element)
AttachEventName ==
  /\ pc = "attach"
  /\ hook_input' = SetItem(hook_input, "hookEventName", Str(<<entry.event>>))
  /\ pc' = "send"
  /\ UNCHANGED <<env, network, consumed, raw_input, requests, result, output, exc,
                 stdout, stderr, exit_code>>

\* result = send_to_analyzer(hook_input)
SendToAnalyzer ==
  /\ pc = "send"
  /\ requests' = Append(requests, BuildRequest(SERVICE_URL, API_KEY, hook_input))
  /\ \E behaviour \in Behaviours :
       LET r == send_to_analyzer(behaviour) IN
         /\ network' = behaviour
         /\ IF r.raised
            THEN /\ exc' = r.exc
                 /\ pc' = "except"
                 /\ UNCHANGED result
            ELSE /\ result' = r.ret
                 /\ pc' = "passthrough"
                 /\ UNCHANGED exc
  /\ UNCHANGED <<env, consumed, raw_input, hook_input, output, stdout, stderr,
                 exit_code>>

\* faulty variant: the flag is looked up under another spelling
passthrough_Misspelt(verdict) == Truthy(Get(verdict, "passThrough", Null))

\* result.get("passthrough")
passthrough(verdict) == Truthy(Get(verdict, "passthrough", Null))

\* faulty variant: the empty object is printed for a passthrough verdict
\* and the run goes on to format the verdict
CheckPassthrough_NoExit ==
  /\ pc = "passthrough"
  /\ IF result.t # "dict"
     THEN /\ exc' = Exc("AttributeError", "", 0)
          /\ pc' = "except"
          /\ UNCHANGED <<stdout, exit_code>>
     ELSE /\ stdout' = IF passthrough(result.d)
                       THEN Append(stdout, EmptyDict)
                       ELSE stdout
          /\ pc' = "format"
          /\ UNCHANGED <<exc, exit_code>>
  /\ UNCHANGED <<env, network, consumed, raw_input, hook_input, requests, result,
                 output, stderr>>

\* if result.get("passthrough"): print("{}"); sys.exit(0)
CheckPassthrough ==
  /\ pc = "passthrough"
  /\ IF result.t # "dict"
     THEN /\ exc' = Exc("AttributeError", "", 0)
          /\ pc' = "except"
          /\ UNCHANGED <<stdout, exit_code>>
     ELSE IF passthrough(result.d)
     THEN /\ stdout' = Append(stdout, EmptyDict)
          /\ exit_code' = 0
          /\ pc' = "exited"
          /\ UNCHANGED exc
     ELSE /\ pc' = "format"
          /\ UNCHANGED <<exc, stdout, exit_code>>
  /\ UNCHANGED <<env, network, consumed, raw_input, hook_input, requests, result,
                 output, stderr>>

\* output = format_fn(result)
FormatOutput ==
  /\ pc = "format"
  /\ LET r == CallFormatter(entry.format_fn, result.d) IN
       IF r.raised # ""
       THEN /\ exc' = Exc(r.raised, "", 0)
            /\ pc' = "except"
            /\ UNCHANGED output
       ELSE /\ output' = r.out
            /\ pc' = "emit"
            /\ UNCHANGED exc
  /\ UNCHANGED <<env, network, consumed, raw_input, hook_input, requests, result,
                 stdout, stderr, exit_code>>

\* if output: print(json.dumps(output)); sys.exit(0)
EmitOutput ==
  /\ pc = "emit"
  /\ stdout' = IF DOMAIN output # {} THEN Append(stdout, output) ELSE stdout
  /\ exit_code' = 0
  /\ pc' = "exited"
  /\ UNCHANGED <<env, network, consumed, raw_input, hook_input, requests, result,
                 output, exc, stderr>>

\* faulty variant: a timed-out call is attempted a second time
HandleException_Retry ==
  /\ pc = "except"
  /\ IF HandlerOf(exc) = "socket.timeout" /\ Len(requests) < 2
     THEN /\ pc' = "send"
          /\ UNCHANGED <<stderr, exit_code>>
     ELSE /\ LET h == HandleOutcome(exc) IN
               /\ stderr' = IF h.err # "" THEN Append(stderr, h.err) ELSE stderr
               /\ exit_code' = h.code
          /\ pc' = "exited"
  /\ UNCHANGED <<env, network, consumed, raw_input, hook_input, requests,
                 result, output, exc, stdout>>

\* the except clauses of run_hook
HandleException ==
  /\ pc = "except"
  /\ LET h == HandleOutcome(exc) IN
       /\ stderr' = IF h.err # "" THEN Append(stderr, h.err) ELSE stderr
       /\ exit_code' = h.code
  /\ pc' = "exited"
  /\ UNCHANGED <<env, network, consumed, raw_input, hook_input, requests, result,
                 output, exc, stdout>>

Next ==
  \/ CheckServiceUrl
  \/ ReadStdin
  \/ ParseInput
  \/ ValidateInput
  \/ AttachEventName
  \/ SendToAnalyzer
  \/ CheckPassthrough
  \/ FormatOutput
  \/ EmitOutput
  \/ HandleException

Spec == Init /\ [][Next]_vars

\* ------------------------------------------------------------------------
\* The part of an invocation that follows a 200 answer, over the verdicts
\* of FormatVerdicts: default configuration, BaseInput on stdin, the
\* request sent, the verdict just returned by send_to_analyzer
\* ------------------------------------------------------------------------
FormatInit ==
  /\ entry \in Entrypoints
  /\ SERVICE_URL = "http://localhost:5050/api/analyze"
  /\ API_KEY = ""
  /\ stdin = Stdin(SmallChars, SmallChars, Parsed(TopDict(BaseInput)))
  /\ pc = "passthrough"
  /\ consumed = SmallChars
  /\ raw_input = StdinRead(stdin, MAX_INPUT_SIZE + 1)
  /\ hook_input = SetItem(BaseInput, "hookEventName", Str(<<entry.event>>))
  /\ requests = <<BuildRequest(SERVICE_URL, API_KEY, hook_input)>>
  /\ \E v \in FormatVerdicts :
       /\ network = NetResponse(200, Parsed(TopDict(v)))
       /\ result = TopDict(v)
  /\ output = EmptyDict
  /\ exc = NoExc
  /\ stdout = <<>>
  /\ stderr = <<>>
  /\ exit_code = NotExited

FormatNext ==
  \/ CheckPassthrough
  \/ FormatOutput
  \/ EmitOutput
  \/ HandleException

FormatSpec == FormatInit /\ [][FormatNext]_vars

\* ------------------------------------------------------------------------
\* Properties
\* ------------------------------------------------------------------------
Exited == pc = "exited"

LogOnlyEvents == {"PostToolUseFailure", "Stop", "UserPromptSubmit"}

\* the analyzer answered 200 with a JSON object
AnsweredVerdict ==
  /\ network.net = "response"
  /\ network.status = 200
  /\ network.body.json = "ok"
  /\ network.body.top.t = "dict"

\* the verdict the analyzer answered
TheVerdict == network.body.top.d

Has(d, k) == k \in DOMAIN d

\* the field k of verdict d is the JSON value true
IsTrue(d, k) == Has(d, k) /\ d[k] = Bool(TRUE)

\* the first n characters of s
FirstChars(s, n) == [i \in 1..(IF Len(s) < n THEN Len(s) ELSE n) |-> s[i]]

\* C1: a log-only entrypoint (PostToolUseFailure, Stop, UserPromptSubmit)
\* whose analyzer answered 200 with a JSON object never ends in a non-zero
\* exit: it ends with exit code 0, whatever the verdict holds.
C1_LogOnlyExitsZero ==
  (entry.event \in LogOnlyEvents /\ AnsweredVerdict /\ Exited) => exit_code = 0

\* the connection was refused, reported bare or as the reason of a URLError
Refused == network.net \in {"refused", "refused_bare"}

\* C2: for every event kind, when the transport call fails with connection
\* refused the invocation ends with exit code 0, has written nothing to
\* standard output and nothing to standard error.
C2_RefusedIsSoft ==
  Refused =>
    /\ stdout = <<>>
    /\ stderr = <<>>
    /\ pc \in {"except", "exited"}
    /\ Exited => exit_code = 0

C2_Witness ==
  /\ Exited
  /\ network.net = "refused"
  /\ entry.event = "PreToolUse"
  /\ exit_code = 0

\* the transport call failed otherwise: a timeout, any other connection
\* error, a status other than 200, a body that is not a JSON object
FailedHard ==
  \/ network.net \in {"connect_timeout", "read_timeout", "unresolved", "reset"}
  \/ /\ network.net = "response"
     /\ \/ network.status # 200
        \/ network.body.json # "ok"
        \/ network.body.top.t # "dict"

\* C3: for every event kind, when the transport call fails in any way other
\* than connection refused the invocation ends with exit code 1 and one
\* non-empty diagnostic on standard error, and writes nothing to standard
\* output.
C3_OtherFailuresAreHard ==
  FailedHard =>
    /\ stdout = <<>>
    /\ pc \in {"passthrough", "except", "exited"}
    /\ Exited => /\ exit_code = 1
                 /\ Len(stderr) = 1
                 /\ stderr[1] # ""

C3_Witness ==
  /\ Exited
  /\ network.net = "response"
  /\ network.status = 500
  /\ exit_code = 1
  /\ stderr # <<>>

\* C4: for every event kind and every verdict whose passthrough is true,
\* whatever its other fields, the formatter is never called, exactly one
\* document, {}, is written to standard output, nothing is written to
\* standard error and the exit code is 0.
C4_PassthroughEmitsEmpty ==
  (AnsweredVerdict /\ IsTrue(TheVerdict, "passthrough")) =>
    /\ pc \in {"passthrough", "exited"}
    /\ output = EmptyDict
    /\ exc = NoExc
    /\ Exited => /\ stdout = <<EmptyDict>>
                 /\ stderr = <<>>
                 /\ exit_code = 0

C4_Witness ==
  /\ Exited
  /\ AnsweredVerdict
  /\ IsTrue(TheVerdict, "passthrough")
  /\ IsTrue(TheVerdict, "autoApprove")
  /\ entry.event = "PermissionRequest"
  /\ stdout = <<EmptyDict>>

\* the endpoint is not an http(s) URL on localhost, 127.0.0.1 or ::1
NonLoopback(url) ==
  LET parsed == urlparse(url) IN
    \/ parsed.raises
    \/ ~(parsed.scheme = "http" \/ parsed.scheme = "https")
    \/ ~(\/ parsed.hostname = "localhost"
         \/ parsed.hostname = "127.0.0.1"
         \/ parsed.hostname = "::1")

\* C5: with an endpoint that is not http(s) on a loopback host the invocation
\* ends with exit code 1 straight after the endpoint check: nothing is ever
\* taken from standard input and no request is ever issued, whatever the
\* API key and the payload.
C5_NonLoopbackBlocksBeforeIO ==
  NonLoopback(SERVICE_URL) =>
    /\ pc \in {"check_url", "exited"}
    /\ consumed = 0
    /\ raw_input = NoInput
    /\ requests = <<>>
    /\ stdout = <<>>
    /\ Exited => exit_code = 1 /\ stderr # <<>>

C5_Witness ==
  /\ Exited
  /\ SERVICE_URL = "http://169.254.169.254/latest"
  /\ API_KEY = "secret"
  /\ stdin.doc = Parsed(TopDict(BaseInput))
  /\ exit_code = 1

\* C6: an input of more than 1,000,000 bytes is rejected before it is
\* parsed: the invocation ends with exit code 1 and no request is issued.
C6_OversizedBytesRejected ==
  stdin.bytes > MAX_INPUT_SIZE =>
    /\ pc \in {"check_url", "read", "exited"}
    /\ requests = <<>>
    /\ Exited => exit_code = 1

\* the input is not JSON or not a JSON object
NotAnObject == stdin.doc.json # "ok" \/ stdin.doc.top.t # "dict"

\* v is a string of at most n characters
StringUpTo(v, n) == v.t = "str" /\ Len(v.s) <= n

\* the invocation blocks: no request, nothing on standard output, and it
\* ends with exit code 1 and a diagnostic on standard error
Blocks ==
  /\ requests = <<>>
  /\ stdout = <<>>
  /\ pc \notin {"send", "passthrough", "format", "emit"}
  /\ Exited => /\ exit_code = 1
               /\ stderr # <<>>
               /\ stderr[Len(stderr)] # ""

\* C7 as stated: an input that is not parseable JSON, is not an object, or
\* holds a tool_name that is not a string of at most 256 characters, blocks.
C7_BadInputBlocks ==
  (\/ NotAnObject
   \/ /\ Has(stdin.doc.top.d, "tool_name")
      /\ ~StringUpTo(stdin.doc.top.d["tool_name"], MAX_TOOL_NAME_LENGTH))
    => Blocks

\* C7 amended: an input that is not parseable JSON, is not an object, or
\* holds a tool_name other than null that is not a string of at most 256
\* characters, blocks: exit code 1, a diagnostic, no request, no output.
C7_BadInputBlocksUnlessNull ==
  (\/ NotAnObject
   \/ /\ Has(stdin.doc.top.d, "tool_name")
      /\ stdin.doc.top.d["tool_name"] # Null
      /\ ~StringUpTo(stdin.doc.top.d["tool_name"], MAX_TOOL_NAME_LENGTH))
    => Blocks

C7_Witness ==
  /\ Exited
  /\ validate_service_url(SERVICE_URL)
  /\ stdin.chars = SmallChars
  /\ Has(stdin.doc.top.d, "tool_name")
  /\ stdin.doc.top.d["tool_name"] = Str(MkStr(MAX_TOOL_NAME_LENGTH + 1))
  /\ exit_code = 1
  /\ stderr = <<"ERROR: Input validation failed: Invalid tool_name">>

\* the formatter of the entrypoint has returned output for the verdict
Formatted(format_fn) ==
  /\ entry.format_fn = format_fn
  /\ AnsweredVerdict
  /\ pc = "emit"

\* v is absent or a number
NumberOrAbsent(d, k) == Has(d, k) => d[k].t = "int"

\* v is absent or a string
StringOrAbsent(d, k) == Has(d, k) => d[k].t = "str"

NumberOr(d, k, default) == IF Has(d, k) THEN d[k].n ELSE default

\* the decision of the ordered rule
PreDecision(score, threshold) ==
  CASE score >= threshold -> "allow"
    [] score < threshold /\ score < 30 -> "deny"
    [] OTHER -> "ask"

\* C8: for numeric safetyScore (default 0) and threshold (default 85) the
\* PreToolUse formatter decides allow when score >= threshold, else deny when
\* score < 30, else ask; an allow output has no permissionDecisionReason, a
\* deny or ask output has one: the first 1000 characters of reasoning, or
\* "Requires review" when reasoning is absent.
C8_PreToolDecision ==
  (/\ Formatted("format_pre_tool_output")
   /\ NumberOrAbsent(TheVerdict, "safetyScore")
   /\ NumberOrAbsent(TheVerdict, "threshold")
   /\ StringOrAbsent(TheVerdict, "reasoning")) =>
    LET decision == PreDecision(NumberOr(TheVerdict, "safetyScore", 0),
                                NumberOr(TheVerdict, "threshold", 85))
        hso == output.hookSpecificOutput
    IN  /\ DOMAIN output = {"hookSpecificOutput"}
        /\ hso.hookEventName = "PreToolUse"
        /\ hso.permissionDecision = decision
        /\ IF decision = "allow"
           THEN DOMAIN hso = {"hookEventName", "permissionDecision"}
           ELSE /\ DOMAIN hso = {"hookEventName", "permissionDecision",
                                 "permissionDecisionReason"}
                /\ hso.permissionDecisionReason =
                     IF Has(TheVerdict, "reasoning")
                     THEN FirstChars(TheVerdict["reasoning"].s, 1000)
                     ELSE TxtRequiresReview

\* score = threshold allows; the reason of an ask is cut to 1000 characters
C8_Witness ==
  /\ Formatted("format_pre_tool_output")
  /\ TheVerdict = Verdict(Absent, Num(50), Num(95), Str(MkStr(2000)), Absent,
                          Absent, Absent)
  /\ output.hookSpecificOutput.permissionDecision = "ask"
  /\ Len(output.hookSpecificOutput.permissionDecisionReason) = 1000

\* C9: the PermissionRequest formatter answers allow exactly when autoApprove
\* is true, deny otherwise; a deny carries the message "Safety score <score>
\* below threshold <threshold>. Reason: <reasoning>" with reasoning cut to
\* its first 1000 characters, and interrupt = true exactly when the verdict's
\* interrupt is true; an allow carries neither message nor interrupt.
C9_PermissionDecision ==
  (/\ Formatted("format_permission_output")
   /\ NumberOrAbsent(TheVerdict, "safetyScore")
   /\ NumberOrAbsent(TheVerdict, "threshold")
   /\ StringOrAbsent(TheVerdict, "reasoning")) =>
    LET decision == output.hookSpecificOutput.decision
        reasoning == IF Has(TheVerdict, "reasoning")
                     THEN FirstChars(TheVerdict["reasoning"].s, 1000)
                     ELSE TxtDenied
    IN  /\ DOMAIN output = {"hookSpecificOutput"}
        /\ DOMAIN output.hookSpecificOutput = {"hookEventName", "decision"}
        /\ output.hookSpecificOutput.hookEventName = "PermissionRequest"
        /\ IF IsTrue(TheVerdict, "autoApprove")
           THEN decision = [behavior |-> "allow"]
           ELSE /\ decision.behavior = "deny"
                /\ decision.message =
                     TxtSafetyScore
                       \o Digits(NumberOr(TheVerdict, "safetyScore", 0))
                       \o TxtBelowThreshold
                       \o Digits(NumberOr(TheVerdict, "threshold", 0))
                       \o TxtReason \o reasoning
                /\ Len(reasoning) <= 1000
                /\ IF IsTrue(TheVerdict, "interrupt")
                   THEN /\ DOMAIN decision = {"behavior", "message", "interrupt"}
                        /\ decision.interrupt = TRUE
                   ELSE DOMAIN decision = {"behavior", "message"}

\* a 2000-character reasoning is embedded as its first 1000 characters
C9_Witness ==
  /\ Formatted("format_permission_output")
  /\ TheVerdict = Verdict(Bool(FALSE), Num(50), Num(95), Str(MkStr(2000)),
                          Bool(TRUE), Absent, Absent)
  /\ Len(output.hookSpecificOutput.decision.message)
       = Len(TxtSafetyScore) + 2 + Len(TxtBelowThreshold) + 2 + Len(TxtReason)
           + 1000
  /\ output.hookSpecificOutput.decision.interrupt = TRUE

\* the suggestion is present and truthy
HasSuggestion(d) ==
  /\ Has(d, "suggestion")
  /\ d["suggestion"].t = "str"
  /\ d["suggestion"].s # <<>>

\* C10: a PostToolUse invocation whose verdict has no passthrough set ends
\* with exit code 0; when suggestion is present and truthy it has written
\* exactly {hookSpecificOutput: {hookEventName: "PostToolUse",
\* additionalContext: the first 500 characters of suggestion}}, with no
\* other field, otherwise it has written nothing to standard output.
C10_PostToolContext ==
  (/\ entry.event = "PostToolUse"
   /\ AnsweredVerdict
   /\ ~Truthy(Get(TheVerdict, "passthrough", Null))) =>
    /\ exc = NoExc
    /\ pc \in {"passthrough", "format"} => stdout = <<>>
    /\ pc \in {"emit", "exited"} =>
         output = IF HasSuggestion(TheVerdict)
                  THEN [hookSpecificOutput |->
                         [hookEventName |-> "PostToolUse",
                          additionalContext |->
                            FirstChars(TheVerdict["suggestion"].s, 500)]]
                  ELSE EmptyDict
    /\ Exited => /\ exit_code = 0
                 /\ stderr = <<>>
                 /\ stdout = IF HasSuggestion(TheVerdict) THEN <<output>>
                             ELSE <<>>

C10_Witness ==
  /\ Exited
  /\ entry.event = "PostToolUse"
  /\ AnsweredVerdict
  /\ ~Has(TheVerdict, "passthrough")
  /\ Has(TheVerdict, "suggestion")
  /\ Len(TheVerdict["suggestion"].s) = 501
  /\ Len(stdout) = 1
  /\ Len(stdout[1].hookSpecificOutput.additionalContext) = 500

C10_WitnessEmpty ==
  /\ Exited
  /\ entry.event = "PostToolUse"
  /\ AnsweredVerdict
  /\ ~Has(TheVerdict, "passthrough")
  /\ Has(TheVerdict, "suggestion")
  /\ TheVerdict["suggestion"] = Str(<<>>)
  /\ stdout = <<>>
  /\ exit_code = 0

\* the input object the host delivered (the empty dict when it delivered
\* no JSON object)
TheInput == stdin.doc.top.d

\* everything but the session_id lets the invocation through: the endpoint
\* is loopback, the input read is within the size limit and is a JSON object,
\* tool_name is absent, null or a string of at most 256 characters
RestIsValid ==
  /\ ~NonLoopback(SERVICE_URL)
  /\ stdin.chars <= 1000000
  /\ ~NotAnObject
  /\ Has(TheInput, "tool_name") =>
       \/ TheInput["tool_name"] = Null
       \/ StringUpTo(TheInput["tool_name"], 256)

\* C11: a string session_id of more than 128 characters ends the invocation
\* with exit code 1 and no request to the analyzer; with a string session_id
\* of 128 characters or fewer in an otherwise valid input the invocation
\* passes validation and issues its request.
C11_SessionIdLength ==
  (~NotAnObject /\ Has(TheInput, "session_id")
     /\ TheInput["session_id"].t = "str") =>
    IF Len(TheInput["session_id"].s) > 128
    THEN /\ requests = <<>>
         /\ pc \notin {"attach", "send", "passthrough", "format", "emit"}
         /\ Exited => exit_code = 1 /\ stderr # <<>>
    ELSE RestIsValid =>
           /\ pc \notin {"check_url", "read", "parse", "validate", "attach",
                         "send"} => Len(requests) = 1
           /\ pc = "exited" => Len(requests) = 1

C11_Witness ==
  /\ Exited
  /\ RestIsValid
  /\ Has(TheInput, "session_id")
  /\ TheInput["session_id"] = Str(MkStr(128))
  /\ Len(requests) = 1
  /\ requests[1].data["session_id"] = Str(MkStr(128))

C11_WitnessRejected ==
  /\ Exited
  /\ RestIsValid
  /\ Has(TheInput, "session_id")
  /\ TheInput["session_id"] = Str(MkStr(129))
  /\ requests = <<>>
  /\ exit_code = 1

\* C12: an input object whose session_id is a number, a boolean, an array or
\* an object, of any value, fails validation: the invocation ends with exit
\* code 1 and sends nothing to the analyzer.
C12_NonStringSessionIdRejected ==
  (~NotAnObject /\ Has(TheInput, "session_id")
     /\ TheInput["session_id"].t \in {"int", "bool", "list", "dict"}) =>
    /\ requests = <<>>
    /\ pc \notin {"attach", "send", "passthrough", "format", "emit"}
    /\ Exited => exit_code = 1

\* ------------------------------------------------------------------------
\* send_to_analyzer called on its own, by a caller that did not run the
\* endpoint check: any configured endpoint, any API key, an input dict
\* that already carries the event name
\* ------------------------------------------------------------------------
ClientInit ==
  /\ entry \in Entrypoints
  /\ SERVICE_URL \in ServiceUrls
  /\ API_KEY \in ApiKeys
  /\ stdin = Stdin(SmallChars, SmallChars, Parsed(TopDict(BaseInput)))
  /\ pc = "call_send"
  /\ consumed = 0
  /\ raw_input = NoInput
  /\ hook_input = SetItem(BaseInput, "hookEventName", Str(<<entry.event>>))
  /\ requests = <<>>
  /\ network = NoBehaviour
  /\ result = TopOther("NoneType")
  /\ output = EmptyDict
  /\ exc = NoExc
  /\ stdout = <<>>
  /\ stderr = <<>>
  /\ exit_code = NotExited

\* send_to_analyzer(hook_input): the request is built and handed to urlopen
\* without a look at SERVICE_URL; the call returns the verdict or raises
DirectSend ==
  /\ pc = "call_send"
  /\ requests' = Append(requests, BuildRequest(SERVICE_URL, API_KEY, hook_input))
  /\ \E behaviour \in Behaviours :
       LET r == send_to_analyzer(behaviour) IN
         /\ network' = behaviour
         /\ IF r.raised
            THEN /\ exc' = r.exc
                 /\ pc' = "raised"
                 /\ UNCHANGED result
            ELSE /\ result' = r.ret
                 /\ pc' = "returned"
                 /\ UNCHANGED exc
  /\ UNCHANGED <<env, consumed, raw_input, hook_input, output, stdout, stderr,
                 exit_code>>

ClientNext == DirectSend

ClientSpec == ClientInit /\ [][ClientNext]_vars

\* C13: send_to_analyzer itself checks the endpoint before it posts: called
\* while the configured endpoint is not loopback, it issues no request,
\* whether or not its caller checked.
C13_ClientRefusesNonLoopback ==
  NonLoopback(SERVICE_URL) => requests = <<>>

\* the endpoint and the input pass read_hook_input
PassesValidation ==
  /\ validate_service_url(SERVICE_URL)
  /\ stdin.chars <= MAX_INPUT_SIZE
  /\ ~NotAnObject
  /\ validate_hook_input(TheInput) = ""

\* C14: an invocation issues at most one POST, and exactly one by the time
\* it ends when its endpoint and input pass validation; after a timeout, an
\* HTTP error or any other failure of the call the next step is the
\* terminal one and no further request is issued.
C14_SinglePost ==
  [][/\ Len(requests') <= 1
     /\ requests' # requests => pc = "send" /\ requests = <<>>
     /\ pc = "except" => pc' = "exited" /\ requests' = requests
     /\ (pc' = "exited" /\ PassesValidation') => Len(requests') = 1
     /\ (pc' = "exited" /\ ~PassesValidation') => requests' = <<>>]_vars

C14_Witness ==
  /\ Exited
  /\ network.net = "read_timeout"
  /\ Len(requests) = 1
  /\ exit_code = 1

\* C15: the body of the request is the validated input object with
\* hookEventName set to the event name of the entrypoint, in place of any
\* hookEventName the input supplied; every other key keeps its value, no key
\* is dropped, and the input dict is changed in no other way.
C15_BodyIsInputPlusEventName ==
  /\ pc \in {"validate", "attach"} => hook_input = TheInput
  /\ requests # <<>> =>
       /\ DOMAIN requests[1].data = DOMAIN TheInput \cup {"hookEventName"}
       /\ requests[1].data["hookEventName"] = Str(<<entry.event>>)
       /\ \A k \in DOMAIN TheInput \ {"hookEventName"} :
            requests[1].data[k] = TheInput[k]
       /\ hook_input = requests[1].data

\* a hookEventName supplied by the input is replaced
C15_Witness ==
  /\ Exited
  /\ requests # <<>>
  /\ entry.event = "PreToolUse"
  /\ Has(TheInput, "hookEventName")
  /\ TheInput["hookEventName"] = Str(MkStr(3))
  /\ Has(TheInput, "tool_name")
  /\ requests[1].data["hookEventName"] = Str(<<"PreToolUse">>)
  /\ requests[1].data["tool_name"] = Null

\* every field the verdict holds has the type the analyzer documents
WellTyped(d) ==
  /\ \A k \in {"autoApprove", "interrupt", "passthrough"} :
       Has(d, k) => d[k].t = "bool"
  /\ \A k \in {"safetyScore", "threshold"} : Has(d, k) => d[k].t = "int"
  /\ \A k \in {"reasoning", "suggestion"} : Has(d, k) => d[k].t = "str"

DecisionFormatters ==
  {"format_permission_output", "format_pre_tool_output",
   "format_post_tool_output"}

\* C16: whichever of autoApprove, safetyScore, threshold, reasoning,
\* interrupt and suggestion a verdict lacks, the PermissionRequest,
\* PreToolUse and PostToolUse formatters return an output and do not raise.
\* For the empty verdict PermissionRequest denies with the message "Safety
\* score 0 below threshold 0. Reason: Denied", PreToolUse denies with the
\* reason "Requires review" and PostToolUse returns the empty output.
C16_FormattersTolerateAbsence ==
  (/\ entry.format_fn \in DecisionFormatters
   /\ AnsweredVerdict
   /\ WellTyped(TheVerdict)) =>
    /\ exc = NoExc
    /\ pc # "except"
    /\ stderr = <<>>
    /\ (pc = "emit" /\ TheVerdict = EmptyDict) =>
         output =
           CASE entry.format_fn = "format_permission_output" ->
                  [hookSpecificOutput |->
                    [hookEventName |-> "PermissionRequest",
                     decision |->
                       [behavior |-> "deny",
                        message |->
                          <<"S", "a", "f", "e", "t", "y", " ", "s", "c", "o",
                            "r", "e", " ", "0", " ", "b", "e", "l", "o", "w",
                            " ", "t", "h", "r", "e", "s", "h", "o", "l", "d",
                            " ", "0", ".", " ", "R", "e", "a", "s", "o", "n",
                            ":", " ", "D", "e", "n", "i", "e", "d">>]]]
             [] entry.format_fn = "format_pre_tool_output" ->
                  [hookSpecificOutput |->
                    [hookEventName |-> "PreToolUse",
                     permissionDecision |-> "deny",
                     permissionDecisionReason |->
                       <<"R", "e", "q", "u", "i", "r", "e", "s", " ", "r",
                         "e", "v", "i", "e", "w">>]]
             [] OTHER -> EmptyDict

\* the PreToolUse formatter has formatted the empty verdict
C16_Witness ==
  /\ pc = "emit"
  /\ AnsweredVerdict
  /\ TheVerdict = EmptyDict
  /\ entry.format_fn = "format_pre_tool_output"
  /\ output.hookSpecificOutput.permissionDecision = "deny"

\* a verdict that holds suggestion and interrupt only
C16_WitnessSubset ==
  /\ pc = "emit"
  /\ AnsweredVerdict
  /\ DOMAIN TheVerdict = {"suggestion", "interrupt"}
  /\ entry.format_fn = "format_permission_output"
  /\ output.hookSpecificOutput.decision.behavior = "deny"

\* ------------------------------------------------------------------------
\* An invocation that is scheduled: the process keeps running while a step
\* is enabled (stdin reaches its end, the call is bounded by TIMEOUT)
\* ------------------------------------------------------------------------
LiveSpec == Init /\ [][Next]_vars /\ WF_vars(Next)

\* the place of each step in the order endpoint check, read, parse,
\* validate, attach event name, call analyzer, passthrough test, format,
\* emit or handle the exception, exit
StepOrder(step) ==
  CASE step = "check_url" -> 1
    [] step = "read" -> 2
    [] step = "parse" -> 3
    [] step = "validate" -> 4
    [] step = "attach" -> 5
    [] step = "send" -> 6
    [] step = "passthrough" -> 7
    [] step = "format" -> 8
    [] step = "emit" -> 9
    [] step = "except" -> 9
    [] step = "exited" -> 10
    [] OTHER -> 0

\* C17: every invocation ends, in one terminal outcome whose exit code is 0
\* or 1 and is set by the last step only; each step taken is later in the
\* order endpoint check, read, validate, attach event name, call analyzer,
\* format, emit, exit than the step before it, so that no step is entered
\* twice and none is followed by an earlier one.
C17_LinearAndTerminates ==
  /\ [][/\ StepOrder(pc) > 0
        /\ StepOrder(pc') > StepOrder(pc)
        /\ exit_code = NotExited
        /\ (pc' = "exited") = (exit_code' \in {0, 1})
        /\ (pc' # "exited") = (exit_code' = NotExited)]_vars
  /\ <>(pc = "exited" /\ exit_code \in {0, 1})

C17_Witness ==
  /\ Exited
  /\ exit_code = 0
  /\ stdout # <<>>
  /\ entry.event = "PreToolUse"
  /\ ~IsTrue(TheVerdict, "passthrough")

\* C19: in every state of an invocation standard output holds nothing or
\* one JSON object, it is written by the step that exits with code 0 and by
\* no other, and an invocation that exits with code 1 has written nothing.
C19_StdoutOnceAndOnlyOnSuccess ==
  /\ Len(stdout) <= 1
  /\ stdout # <<>> => /\ pc = "exited"
                      /\ exit_code = 0
                      /\ exc = NoExc
                      /\ stdout[1] \in {EmptyDict, output}
  /\ exit_code = 1 => stdout = <<>>
  /\ pc = "except" => stdout = <<>>

\* a deny decision was printed by the permission hook
C19_Witness ==
  /\ Exited
  /\ exit_code = 0
  /\ Len(stdout) = 1
  /\ DOMAIN stdout[1] = {"hookSpecificOutput"}
  /\ entry.script = "bash-hook.py"
  /\ stdout[1].hookSpecificOutput.decision.behavior = "deny"

\* a run that got a verdict and failed in the formatter printed nothing
C19_WitnessFailure ==
  /\ Exited
  /\ exit_code = 1
  /\ result # NoInput
  /\ requests # <<>>
  /\ stdout = <<>>

\* C20: a non-empty decision on standard output carries, as
\* hookSpecificOutput.hookEventName, the event name the invocation attached
\* to its request to the analyzer.
C20_DecisionNamesRequestEvent ==
  \A i \in DOMAIN stdout :
    DOMAIN stdout[i] # {} =>
      /\ "hookSpecificOutput" \in DOMAIN stdout[i]
      /\ "hookEventName" \in DOMAIN stdout[i].hookSpecificOutput
      /\ Len(requests) = 1
      /\ Str(<<stdout[i].hookSpecificOutput.hookEventName>>)
           = requests[1].data["hookEventName"]
      /\ stdout[i].hookSpecificOutput.hookEventName = entry.event
      /\ entry.event \in {"PermissionRequest", "PreToolUse", "PostToolUse"}

\* the pre-tool hook printed a decision for an input that named another event
C20_Witness ==
  /\ Exited
  /\ Len(stdout) = 1
  /\ DOMAIN stdout[1] # {}
  /\ entry.script = "pre-tool-use-hook.py"
  /\ stdout[1].hookSpecificOutput.hookEventName = "PreToolUse"
  /\ Has(TheInput, "hookEventName")
  /\ TheInput["hookEventName"] # Str(<<"PreToolUse">>)

\* the post-tool hook printed its context
C20_WitnessPostTool ==
  /\ Exited
  /\ Len(stdout) = 1
  /\ DOMAIN stdout[1] # {}
  /\ entry.script = "post-tool-use-hook.py"
  /\ stdout[1].hookSpecificOutput.hookEventName = "PostToolUse"

====
